---- MODULE Spec2Model ----
(***************************************************************************)
(* Bidirectional windowed-load controller of broad-infinite-list, modelled *)
(* from the React web component (src/src/react.tsx).                       *)
(*                                                                         *)
(* Items are natural numbers in their order in the underlying collection;  *)
(* itemKey is injective, so an item stands for its own key.  The parent    *)
(* owns the window: onItemsChange(next) makes `items` equal to next, and   *)
(* the component sees it through itemsRef on the following render.         *)
(* Spec is the window controller alone.  SpecRoundTrip runs it against the *)
(* paged source of the e2e demo, and SpecScroll adds the scroll container: *)
(* integer row and indicator heights, scrollTop as the browser clamps it,  *)
(* and the offset an anchor was recorded at.  SpecRetry remembers how the  *)
(* last load of each direction settled, SpecLive adds to it the fairness   *)
(* of timers and renders, and SpecNative is the frame-polling restoration  *)
(* of the React Native component (src/src/react-native.tsx); SpecNativeHost *)
(* puts it under a parent that may keep its items, SpecNativeScroll under  *)
(* a user who scrolls.  SpecRuns starts the paged source from any run of   *)
(* consecutive items, SpecReplace lets the parent replace the window,      *)
(* SpecSideBySide runs the Vue component (src/src/index.vue) beside the    *)
(* React one, and SpecWait is waitForMutation (src/src/utils.ts).          *)
(***************************************************************************)
EXTENDS Integers, Sequences, FiniteSets, TLC

\* ---------------------------------------------------------------- bounds
MaxKey == 3          \* items are 0..MaxKey
MaxViewCount == 3    \* viewCount is chosen in 1..MaxViewCount
MaxBatch == 2        \* the loader returns at most MaxBatch items
MaxClientHeight == 2 \* the scroll container is 1..MaxClientHeight high
MaxSpinnerHeight == 2 \* spinnerRow is 0..MaxSpinnerHeight high
MaxOffset == 3       \* recorded offsets tried are -MaxOffset..MaxOffset
MaxWaits == 3        \* waitForMutation is called at most MaxWaits times

Keys == 0..MaxKey
Dir == {"up", "down"}

VARIABLES
    items,          \* props.items / itemsRef.current: the window
    viewCount,      \* props.viewCount
    hasPrevious,    \* props.hasPrevious
    hasNext,        \* props.hasNext
    disable,        \* props.disable
    mounted,        \* the component is mounted (observer connected)
    loadingLock,    \* loadingLockRef.current: [Dir -> BOOLEAN]
    isAdjusting,    \* isAdjustingRef.current
    isLoading,      \* isUpLoading / isDownLoading: [Dir -> BOOLEAN]
    pendingRestore, \* pendingRestoreRef.current: <<>> or <<[type, anchor]>>
    inflight,       \* [Dir -> Seq([cur, ref])]: loader calls not yet settled
    timers,         \* [Dir -> Nat]: cooldown timers not yet fired
    ticks,          \* nextTick callbacks queued for the next commit
    ev,             \* what the last step did, for observation: <<>> or <<record>>
    hist,           \* history, kept under SpecRoundTrip only: the last two
                    \* loads that committed, the latest first
    settledAs,      \* history, kept under SpecRetry only: how the last load
                    \* of each direction settled
    \* scroll geometry, kept under SpecScroll only
    dom,            \* what the last render put in the document:
                    \* [items, up, down] (the items and the two indicators)
    scrollTop,      \* the scroll container's scrollTop
    clientHeight,   \* the scroll container's height
    spinnerHeight,  \* the height of spinnerRow
    anchorOffset,   \* pendingRestoreRef.current.anchor.offset
    scrollLog,      \* what the last step did to the scroll position, in order
    \* the React Native component's restoration, kept under SpecNative,
    \* SpecNativeHost and SpecNativeScroll only
    layouts,        \* itemLayoutsRef.current: [Keys -> <<>> or <<y>>]
    poll,           \* the closure of the restore effect: anchorKey, anchorY,
                    \* attempts; whether tryRestore is waiting for a frame;
                    \* how many times it has looked the anchor up, and how
                    \* it ended
    offsetY,        \* scrollMetricsRef.current.offsetY
    \* the Vue component beside the React one, kept under SpecSideBySide only
    vue,            \* its window, refs, pending calls, timers and callbacks
    \* calls of waitForMutation, kept under SpecWait only
    waits           \* one record for each call, in the order of the calls

history == <<hist, settledAs>>

native == <<layouts, poll, offsetY>>

side == <<vue, waits>>

geom == <<dom, scrollTop, clientHeight, spinnerHeight, anchorOffset, scrollLog>>

vars == <<items, viewCount, hasPrevious, hasNext, disable, mounted, loadingLock,
          isAdjusting, isLoading, pendingRestore, inflight, timers, ticks, ev, history,
          geom, native, side>>

\* What Spec, which follows keys only, leaves alone.
aux == <<history, geom, native, side>>

\* ------------------------------------------------------------- sequences
Range(s) == {s[i] : i \in 1..Len(s)}

Min(S) == CHOOSE x \in S : \A y \in S : x <= y

RECURSIVE SortedSeq(_)
SortedSeq(S) == IF S = {} THEN <<>> ELSE <<Min(S)>> \o SortedSeq(S \ {Min(S)})

\* Array.prototype.slice(start): the elements from index start (0-based) on.
SliceFrom(s, start) == SubSeq(s, start + 1, Len(s))

\* Array.prototype.slice(0, end): the first end elements.
SliceTo(s, end) == SubSeq(s, 1, IF end < Len(s) THEN end ELSE Len(s))

ItemKey(item) == item

\* Ordered windows of pairwise distinct items, at most n long.
Windows(n) == {SortedSeq(T) : T \in {U \in SUBSET Keys : Cardinality(U) <= n}}

\* ------------------------------------------------------ the data source
\* onLoadMore(direction, refItem): an ordered batch of at most MaxBatch items,
\* all strictly beyond refItem in that direction; possibly empty.
Beyond(direction, refItem) ==
    IF direction = "up" THEN {k \in Keys : k < refItem}
                        ELSE {k \in Keys : k > refItem}

LoaderResults(direction, refItem) ==
    {SortedSeq(T) : T \in {U \in SUBSET Beyond(direction, refItem) :
                              Cardinality(U) <= MaxBatch}}

\* ------------------------------------------------------- scroll geometry
\* Lengths are whole pixels.  The document holds, from the top: the top
\* sentinel (no height of its own), the indicator while an up load shows it,
\* the items, the indicator while a down load shows it, the bottom sentinel.

\* renderItem: rows of two heights.
ItemHeight(item) == 1 + (item % 2)

RECURSIVE SumHeights(_)
SumHeights(s) == IF s = <<>> THEN 0 ELSE ItemHeight(Head(s)) + SumHeights(Tail(s))

\* react.tsx 437-449: what a render of the current props and state shows.
Rendering == [items |-> items, up |-> isLoading["up"], down |-> isLoading["down"]]

\* scrollHeight of the container for a rendering d.
ScrollHeight(d) ==
    (IF d.up THEN spinnerHeight ELSE 0) + SumHeights(d.items)
        + (IF d.down THEN spinnerHeight ELSE 0)

\* The browser keeps scrollTop within 0 .. scrollHeight - clientHeight.
MaxScrollTop(d) ==
    IF ScrollHeight(d) > clientHeight THEN ScrollHeight(d) - clientHeight ELSE 0

Clamp(value, d) ==
    IF value < 0 THEN 0
    ELSE IF value > MaxScrollTop(d) THEN MaxScrollTop(d) ELSE value

\* react.tsx 193-200: the element with data-id = key, if one is rendered.
findElementByKey(key, d) == {i \in 1..Len(d.items) : ItemKey(d.items[i]) = key}

\* el.getBoundingClientRect().top - getViewportTop() for the i-th item.
VisualOffset(i, d, top) ==
    (IF d.up THEN spinnerHeight ELSE 0) + SumHeights(SubSeq(d.items, 1, i - 1)) - top

\* react.tsx 78
MIN_SCROLL_DELTA == 1

Abs(x) == IF x < 0 THEN -x ELSE x

\* computeAnchorDelta with the two offsets exchanged.
computeAnchorDeltaReversed(anchor, d, top) ==
    IF anchor = <<>> THEN 0
    ELSE LET el == findElementByKey(anchor[1].key, d)
         IN  IF el = {} THEN 0
             ELSE LET currentOffset == VisualOffset(CHOOSE i \in el : TRUE, d, top)
                      delta == anchor[1].offset - currentOffset
                  IN  IF Abs(delta) > MIN_SCROLL_DELTA THEN delta ELSE 0

\* computeAnchorDelta measuring an element it cannot find as if it were at
\* the top of the viewport.
computeAnchorDeltaMissingAtTop(anchor, d, top) ==
    IF anchor = <<>> THEN 0
    ELSE LET el == findElementByKey(anchor[1].key, d)
             currentOffset == IF el = {} THEN 0
                              ELSE VisualOffset(CHOOSE i \in el : TRUE, d, top)
             delta == currentOffset - anchor[1].offset
         IN  IF Abs(delta) > MIN_SCROLL_DELTA THEN delta ELSE 0

\* react.tsx 96-107; anchor is <<>> (null) or <<[key, offset]>>.
computeAnchorDelta(anchor, d, top) ==
    IF anchor = <<>> THEN 0
    ELSE LET el == findElementByKey(anchor[1].key, d)
         IN  IF el = {} THEN 0
             ELSE LET currentOffset == VisualOffset(CHOOSE i \in el : TRUE, d, top)
                      delta == currentOffset - anchor[1].offset
                  IN  IF Abs(delta) > MIN_SCROLL_DELTA THEN delta ELSE 0

\* An entry of scrollLog: a callback, or a write of scrollTop asking to move
\* it by `by` to `to`.
Event(e, by, to) == [e |-> e, by |-> by, to |-> to]

\* setScrollTop without the onScrollEnd call of line 175.
setScrollTopNoEnd(st, value) ==
    [st EXCEPT !.scrollTop = Clamp(value, st.dom),
               !.log = @ \o <<Event("onScrollStart", 0, 0),
                              Event("scrollTop", value - st.scrollTop, value)>>]

\* react.tsx 170-178: the write the restoration makes, between its two callbacks.
setScrollTop(st, value) ==
    [st EXCEPT !.scrollTop = Clamp(value, st.dom),
               !.log = @ \o <<Event("onScrollStart", 0, 0),
                              Event("scrollTop", value - st.scrollTop, value),
                              Event("onScrollEnd", 0, 0)>>]

\* ------------------------------------------------------- window manager
\* MergeUp with the trim to viewCount left out.
MergeUpNoTrim(newItems, currentItems, vc) == newItems \o currentItems

\* MergeUp trimming the head, as a down load does, instead of the tail.
MergeUpKeepTail(newItems, currentItems, vc) ==
    LET nextItems == newItems \o currentItems
    IN  IF Len(nextItems) > vc THEN SliceFrom(nextItems, Len(nextItems) - vc)
                               ELSE nextItems

\* MergeUp keeping viewCount less the batch length instead of viewCount.
MergeUpTrimsBatch(newItems, currentItems, vc) ==
    LET nextItems == newItems \o currentItems
    IN  IF Len(nextItems) > vc THEN SliceTo(nextItems, vc - Len(newItems))
                               ELSE nextItems

\* react.tsx 329-332: prepend, then keep the first viewCount items.
MergeUp(newItems, currentItems, vc) ==
    LET nextItems == newItems \o currentItems
    IN  IF Len(nextItems) > vc THEN SliceTo(nextItems, vc) ELSE nextItems

\* react.tsx 338-344: append, then drop countToRemove items from the head.
DidTrim(currentItems, newItems, vc) == Len(currentItems \o newItems) > vc

\* MergeDown putting the loaded items ahead of the window.
MergeDownPrepends(currentItems, newItems, vc) ==
    LET nextItems == newItems \o currentItems
        countToRemove == Len(nextItems) - vc
    IN  IF Len(nextItems) > vc THEN SliceFrom(nextItems, countToRemove)
                               ELSE nextItems

\* MergeDown trimming the tail, as an up load does, instead of the head.
MergeDownTrimsTail(currentItems, newItems, vc) ==
    LET nextItems == currentItems \o newItems
    IN  IF Len(nextItems) > vc THEN SliceTo(nextItems, vc) ELSE nextItems

MergeDown(currentItems, newItems, vc) ==
    LET nextItems == currentItems \o newItems
        countToRemove == Len(nextItems) - vc
    IN  IF Len(nextItems) > vc THEN SliceFrom(nextItems, countToRemove)
                               ELSE nextItems

\* react.tsx 82-90: null when no element is rendered for the key.
snapshotAnchor(key, rendered) ==
    IF key \in {ItemKey(x) : x \in Range(rendered)} THEN <<[key |-> key]>> ELSE <<>>

\* ---------------------------------------------------- load orchestrator
\* The refs and state handleLoad reads and writes before its await, as a record,
\* so that one observer callback can run it several times in a row.
Controller ==
    [lock |-> loadingLock, adjusting |-> isAdjusting, loading |-> isLoading,
     inflight |-> inflight, ticks |-> ticks, calls |-> <<>>]

\* Accepts without the lock check of line 281.
AcceptsIgnoringLock(c, direction) ==
    /\ ~disable
    /\ (direction = "up" => hasPrevious)
    /\ (direction = "down" => hasNext)
    /\ Len(items) # 0

\* Accepts without the availability checks of lines 279-280.
AcceptsIgnoringAvailability(c, direction) ==
    /\ ~disable
    /\ ~c.lock[direction]
    /\ Len(items) # 0

\* Accepts without the disable check of line 276.
AcceptsIgnoringDisable(c, direction) ==
    /\ (direction = "up" => hasPrevious)
    /\ (direction = "down" => hasNext)
    /\ ~c.lock[direction]
    /\ Len(items) # 0

\* react.tsx 276-284: the early returns of handleLoad.
Accepts(c, direction) ==
    /\ ~disable
    /\ (direction = "up" => hasPrevious)
    /\ (direction = "down" => hasNext)
    /\ ~c.lock[direction]
    /\ Len(items) # 0

\* RefItem with the two boundary items exchanged.
RefItemSwapped(direction, currentItems) ==
    IF direction = "up" THEN currentItems[Len(currentItems)] ELSE currentItems[1]

\* react.tsx 315-317
RefItem(direction, currentItems) ==
    IF direction = "up" THEN currentItems[1] ELSE currentItems[Len(currentItems)]

\* handleLoad without taking the lock at line 286.
handleLoadLeavesLock(c, direction) ==
    IF ~Accepts(c, direction) THEN c
    ELSE LET call == [cur |-> items, ref |-> RefItem(direction, items)]
         IN  [c EXCEPT !.adjusting = TRUE,
                       !.loading[direction] = TRUE,
                       !.ticks = IF direction = "up" THEN Append(@, "measure") ELSE @,
                       !.inflight[direction] = Append(@, call),
                       !.calls = Append(@, [dir |-> direction, ref |-> call.ref])]

\* handleLoad without the setIsUpLoading(true)/setIsDownLoading(true) of
\* lines 290 and 311.
handleLoadHidesIndicator(c, direction) ==
    IF ~Accepts(c, direction) THEN c
    ELSE LET call == [cur |-> items, ref |-> RefItem(direction, items)]
         IN  [c EXCEPT !.lock[direction] = TRUE,
                       !.adjusting = TRUE,
                       !.ticks = IF direction = "up" THEN Append(@, "measure") ELSE @,
                       !.inflight[direction] = Append(@, call),
                       !.calls = Append(@, [dir |-> direction, ref |-> call.ref])]

\* handleLoad setting isAdjustingRef ahead of its early returns.
handleLoadAdjustingFirst(c, direction) ==
    IF ~Accepts(c, direction) THEN [c EXCEPT !.adjusting = TRUE]
    ELSE LET call == [cur |-> items, ref |-> RefItem(direction, items)]
         IN  [c EXCEPT !.lock[direction] = TRUE,
                       !.adjusting = TRUE,
                       !.loading[direction] = TRUE,
                       !.ticks = IF direction = "up" THEN Append(@, "measure") ELSE @,
                       !.inflight[direction] = Append(@, call),
                       !.calls = Append(@, [dir |-> direction, ref |-> call.ref])]

\* react.tsx 274-319: handleLoad up to the call of onLoadMore.
handleLoad(c, direction) ==
    IF ~Accepts(c, direction) THEN c
    ELSE LET call == [cur |-> items, ref |-> RefItem(direction, items)]
         IN  [c EXCEPT !.lock[direction] = TRUE,
                       !.adjusting = TRUE,
                       !.loading[direction] = TRUE,
                       !.ticks = IF direction = "up" THEN Append(@, "measure") ELSE @,
                       !.inflight[direction] = Append(@, call),
                       !.calls = Append(@, [dir |-> direction, ref |-> call.ref])]

\* A render that a state change has scheduled, with nextTick callbacks waiting
\* for its commit.  React flushes it before the browser runs a later task
\* (an observer notification, a timer); a promise continuation can run first.
RenderPending == mounted /\ ticks # <<>>

\* react.tsx 394-398: the observer exists only while mounted and under these props.
Observing == mounted /\ ~disable /\ (hasNext \/ hasPrevious)

\* react.tsx 407-411: handleLoad for each intersecting entry, in order
\* ("up" for the top sentinel, "down" for the bottom one).
RECURSIVE LoadEach(_, _)
LoadEach(c, entries) ==
    IF entries = <<>> THEN c
    ELSE LoadEach(handleLoad(c, Head(entries)), Tail(entries))

\* IntersectionCallback without the isAdjusting check of line 405.
IntersectionCallbackIgnoringAdjusting(c, entries) ==
    IF ~Observing THEN c
    ELSE LoadEach(c, entries)

\* react.tsx 394-412: what the component does when the sentinels named by
\* entries come within the threshold: nothing without an observer, nothing
\* while adjusting, handleLoad for each entry otherwise.
IntersectionCallback(c, entries) ==
    IF ~Observing THEN c
    ELSE IF c.adjusting THEN c
    ELSE LoadEach(c, entries)

\* react.tsx 420-421: two targets are observed, the top sentinel first; one
\* notification carries an entry for either or both.
Batches == {<<"up">>, <<"down">>, <<"up", "down">>}

\* The scroll position brings the sentinels of entries within the threshold.
Intersect(entries) ==
    /\ mounted
    /\ ~RenderPending
    /\ LET c == IntersectionCallback(Controller, entries)
       IN  /\ loadingLock' = c.lock
           /\ isAdjusting' = c.adjusting
           /\ isLoading' = c.loading
           /\ inflight' = c.inflight
           /\ ticks' = c.ticks
           /\ ev' = <<[op |-> "observe", entries |-> entries, calls |-> c.calls]>>
    /\ UNCHANGED <<items, viewCount, hasPrevious, hasNext, disable, mounted,
                   pendingRestore, timers>>

\* What the loader's promise settles with.
Rejected == [ok |-> FALSE, newItems |-> <<>>]
Resolved(newItems) == [ok |-> TRUE, newItems |-> newItems]

Outcomes(direction, call) ==
    {Rejected} \cup {Resolved(n) : n \in LoaderResults(direction, call.ref)}

\* The continuation of handleLoad after its await leaves, per branch:
\*   commit     the argument of onItemsChange, <<>> when it is not invoked
\*   adjusting  isAdjustingRef.current
\*   pending    pendingRestoreRef.current (the anchor's key)
\*   offset     pendingRestoreRef.current.anchor.offset
\*   ticks      the nextTick queue
\* (each branch also clears the direction's loading state, see Settle).

\* react.tsx 82-90: the offset snapshotAnchor records for a rendered key.
snapshotOffset(key) ==
    LET el == findElementByKey(key, dom)
    IN  IF el = {} THEN anchorOffset
        ELSE VisualOffset(CHOOSE i \in el : TRUE, dom, scrollTop)

\* react.tsx 328-366: a non-empty result for the call that captured call.cur.
LoadedItems(direction, call, newItems) ==
    IF direction = "up"
    THEN [commit |-> <<MergeUp(newItems, call.cur, viewCount)>>,      \* 328-336
          adjusting |-> isAdjusting,
          pending |-> pendingRestore,
          offset |-> anchorOffset,
          ticks |-> Append(ticks, "restore")]
    ELSE LET nextItems == MergeDown(call.cur, newItems, viewCount)    \* 337-366
             didTrim == DidTrim(call.cur, newItems, viewCount)
         IN  [commit |-> <<nextItems>>,
              adjusting |-> IF didTrim THEN isAdjusting ELSE FALSE,
              pending |-> IF didTrim
                          THEN <<[type |-> "down-trim",
                                  anchor |-> snapshotAnchor(ItemKey(nextItems[1]), items)]>>
                          ELSE pendingRestore,
              offset |-> IF didTrim THEN snapshotOffset(ItemKey(nextItems[1]))
                                    ELSE anchorOffset,
              ticks |-> IF didTrim THEN Append(ticks, "restore") ELSE ticks]

\* LoadedNothing without the early return of lines 321-326.
LoadedNothingMerges(direction, call) == LoadedItems(direction, call, <<>>)

\* react.tsx 321-326: an empty result.
LoadedNothing(direction, call) ==
    [commit |-> <<>>, adjusting |-> FALSE, pending |-> pendingRestore,
     offset |-> anchorOffset, ticks |-> ticks]

\* LoadFailed without line 370.
LoadFailedKeepsAdjusting(direction, call) ==
    [commit |-> <<>>, adjusting |-> isAdjusting, pending |-> pendingRestore,
     offset |-> anchorOffset, ticks |-> ticks]

\* LoadFailed handing the captured window to onItemsChange.
LoadFailedCommits(direction, call) ==
    [commit |-> <<call.cur>>, adjusting |-> FALSE, pending |-> pendingRestore,
     offset |-> anchorOffset, ticks |-> ticks]

\* react.tsx 367-370: the catch block.
LoadFailed(direction, call) ==
    [commit |-> <<>>, adjusting |-> FALSE, pending |-> pendingRestore,
     offset |-> anchorOffset, ticks |-> ticks]

\* react.tsx 319-370
AfterLoad(direction, call, outcome) ==
    IF ~outcome.ok THEN LoadFailed(direction, call)
    ELSE IF Len(outcome.newItems) = 0 THEN LoadedNothing(direction, call)
    ELSE LoadedItems(direction, call, outcome.newItems)

RemoveAt(s, i) == SubSeq(s, 1, i - 1) \o SubSeq(s, i + 1, Len(s))

\* Settle releasing the lock at once instead of starting the cooldown timer.
SettleWithoutCooldown(direction, i, outcome) ==
    LET call == inflight[direction][i]
        r == AfterLoad(direction, call, outcome)
    IN  /\ items' = IF r.commit = <<>> THEN items ELSE r.commit[1]
        /\ isLoading' = [isLoading EXCEPT ![direction] = FALSE]
        /\ isAdjusting' = r.adjusting
        /\ pendingRestore' = r.pending
        /\ ticks' = r.ticks
        /\ inflight' = [inflight EXCEPT ![direction] = RemoveAt(@, i)]
        /\ loadingLock' = [loadingLock EXCEPT ![direction] = FALSE]
        /\ ev' = <<[op |-> "settle", dir |-> direction, call |-> call,
                    outcome |-> outcome, commit |-> r.commit,
                    stale |-> (call.cur # items), live |-> mounted]>>
        /\ UNCHANGED <<viewCount, hasPrevious, hasNext, disable, mounted, timers>>

\* Settle with the finally block starting no timer.
SettleWithoutTimer(direction, i, outcome) ==
    LET call == inflight[direction][i]
        r == AfterLoad(direction, call, outcome)
    IN  /\ items' = IF r.commit = <<>> THEN items ELSE r.commit[1]
        /\ isLoading' = [isLoading EXCEPT ![direction] = FALSE]
        /\ isAdjusting' = r.adjusting
        /\ pendingRestore' = r.pending
        /\ ticks' = r.ticks
        /\ inflight' = [inflight EXCEPT ![direction] = RemoveAt(@, i)]
        /\ ev' = <<[op |-> "settle", dir |-> direction, call |-> call,
                    outcome |-> outcome, commit |-> r.commit,
                    stale |-> (call.cur # items), live |-> mounted]>>
        /\ UNCHANGED <<viewCount, hasPrevious, hasNext, disable, mounted, loadingLock,
                       timers>>

\* The promise of the i-th pending call of a direction settles; the continuation
\* runs to the end of handleLoad, its finally block starting the cooldown timer.
Settle(direction, i, outcome) ==
    LET call == inflight[direction][i]
        r == AfterLoad(direction, call, outcome)
    IN  /\ items' = IF r.commit = <<>> THEN items ELSE r.commit[1]
        /\ isLoading' = [isLoading EXCEPT ![direction] = FALSE]
        /\ isAdjusting' = r.adjusting
        /\ pendingRestore' = r.pending
        /\ ticks' = r.ticks
        /\ inflight' = [inflight EXCEPT ![direction] = RemoveAt(@, i)]
        /\ timers' = [timers EXCEPT ![direction] = @ + 1]      \* 371-375
        /\ ev' = <<[op |-> "settle", dir |-> direction, call |-> call,
                    outcome |-> outcome, commit |-> r.commit,
                    stale |-> (call.cur # items), live |-> mounted]>>
        /\ UNCHANGED <<viewCount, hasPrevious, hasNext, disable, mounted, loadingLock>>

\* Cooldown with the timer allowed to fire ahead of a render that is waiting
\* to commit.
CooldownAheadOfRender(direction) ==
    /\ timers[direction] > 0
    /\ timers' = [timers EXCEPT ![direction] = @ - 1]
    /\ loadingLock' = [loadingLock EXCEPT ![direction] = FALSE]
    /\ ev' = <<>>
    /\ UNCHANGED <<items, viewCount, hasPrevious, hasNext, disable, mounted,
                   isAdjusting, isLoading, pendingRestore, inflight, ticks>>

\* Cooldown with the timer callback leaving the lock as it is.
CooldownKeepsLock(direction) ==
    /\ timers[direction] > 0
    /\ ~RenderPending
    /\ timers' = [timers EXCEPT ![direction] = @ - 1]
    /\ ev' = <<>>
    /\ UNCHANGED <<items, viewCount, hasPrevious, hasNext, disable, mounted,
                   loadingLock, isAdjusting, isLoading, pendingRestore, inflight,
                   ticks>>

\* react.tsx 372-374: a cooldown timer fires.
Cooldown(direction) ==
    /\ timers[direction] > 0
    /\ ~RenderPending
    /\ timers' = [timers EXCEPT ![direction] = @ - 1]
    /\ loadingLock' = [loadingLock EXCEPT ![direction] = FALSE]
    /\ ev' = <<>>
    /\ UNCHANGED <<items, viewCount, hasPrevious, hasNext, disable, mounted,
                   isAdjusting, isLoading, pendingRestore, inflight, ticks>>

\* The refs and the scroll container as the nextTick callbacks find them once
\* the render has committed: the document shows Rendering and the browser has
\* clamped scrollTop to it.
AfterRender ==
    [pending |-> pendingRestore, adjusting |-> isAdjusting, offset |-> anchorOffset,
     dom |-> Rendering, scrollTop |-> Clamp(scrollTop, Rendering), log |-> <<>>]

\* react.tsx 294-309: the callback queued when an up load starts.  The anchor
\* is the first item, its offset the height of the indicator if one is rendered.
MeasureSpinner(st) ==
    IF Len(items) > 0
    THEN [st EXCEPT !.pending = <<[type |-> "prepend",
                                   anchor |-> <<[key |-> ItemKey(items[1])]>>]>>,
                    !.offset = IF st.dom.up THEN spinnerHeight ELSE 0]
    ELSE st

\* The anchor of a pending restore with its offset, <<>> for none.
AnchorOf(pending, offset) ==
    IF pending[1].anchor = <<>> THEN <<>>
    ELSE <<[key |-> pending[1].anchor[1].key, offset |-> offset]>>

\* applyScrollRestore subtracting the delta.
applyScrollRestoreBackwards(st) ==
    IF st.pending = <<>> THEN [st EXCEPT !.adjusting = FALSE]
    ELSE LET delta == computeAnchorDelta(AnchorOf(st.pending, st.offset),
                                         st.dom, st.scrollTop)
             cleared == [st EXCEPT !.pending = <<>>, !.adjusting = FALSE]
         IN  IF delta # 0 THEN setScrollTop(cleared, st.scrollTop - delta)
                          ELSE cleared

\* react.tsx 254-270
applyScrollRestore(st) ==
    IF st.pending = <<>> THEN [st EXCEPT !.adjusting = FALSE]
    ELSE LET delta == computeAnchorDelta(AnchorOf(st.pending, st.offset),
                                         st.dom, st.scrollTop)
             cleared == [st EXCEPT !.pending = <<>>, !.adjusting = FALSE]
         IN  IF delta # 0 THEN setScrollTop(cleared, st.scrollTop + delta)
                          ELSE cleared

RECURSIVE RunTicks(_, _)
RunTicks(st, queue) ==
    IF queue = <<>> THEN st
    ELSE RunTicks(IF Head(queue) = "measure" THEN MeasureSpinner(st)
                                             ELSE applyScrollRestore(st),
                  Tail(queue))

\* React commits a render: the queued nextTick callbacks run, in order.
Commit ==
    /\ mounted
    /\ ticks # <<>>
    /\ LET st == RunTicks(AfterRender, ticks)
       IN  /\ pendingRestore' = st.pending
           /\ isAdjusting' = st.adjusting
    /\ ticks' = <<>>
    /\ ev' = <<>>
    /\ UNCHANGED <<items, viewCount, hasPrevious, hasNext, disable, mounted,
                   loadingLock, isLoading, inflight, timers>>

\* The parent re-renders the component with other props.
SetProps ==
    /\ mounted
    /\ \/ /\ hasPrevious' = ~hasPrevious
          /\ UNCHANGED <<hasNext, disable>>
       \/ /\ hasNext' = ~hasNext
          /\ UNCHANGED <<hasPrevious, disable>>
       \/ /\ disable' = ~disable
          /\ UNCHANGED <<hasPrevious, hasNext>>
    /\ ev' = <<>>
    /\ UNCHANGED <<items, viewCount, mounted, loadingLock, isAdjusting, isLoading,
                   pendingRestore, inflight, timers, ticks>>

\* The component is unmounted; the effect cleanup disconnects the observer.
Teardown ==
    /\ mounted
    /\ mounted' = FALSE
    /\ ev' = <<>>
    /\ UNCHANGED <<items, viewCount, hasPrevious, hasNext, disable, loadingLock,
                   isAdjusting, isLoading, pendingRestore, inflight, timers, ticks>>

\* Nothing is remembered yet.
NoHistory ==
    /\ hist = <<>>
    /\ settledAs = [d \in Dir |-> "none"]

\* No layout has been reported and no restore effect has run.
Unpolled ==
    [active |-> FALSE, key |-> 0, anchorY |-> 0, attempts |-> 0, lookups |-> 0,
     outcome |-> "none"]

NoNative ==
    /\ layouts = [k \in Keys |-> <<>>]
    /\ poll = Unpolled
    /\ offsetY = 0

\* No Vue component is mounted.
NoVue == vue = <<>>

\* waitForMutation has not been called.
NoWaits == waits = <<>>

NoSide == NoVue /\ NoWaits

\* Nothing is laid out: the specifications that follow keys only start here
\* and leave the geometry alone.
NoGeometry ==
    /\ dom = [items |-> <<>>, up |-> FALSE, down |-> FALSE]
    /\ scrollTop = 0
    /\ clientHeight = 0
    /\ spinnerHeight = 0
    /\ anchorOffset = 0
    /\ scrollLog = <<>>

Init ==
    /\ viewCount \in 1..MaxViewCount
    /\ items \in Windows(viewCount)
    /\ hasPrevious \in BOOLEAN
    /\ hasNext \in BOOLEAN
    /\ disable \in BOOLEAN
    /\ mounted = TRUE
    /\ loadingLock = [d \in Dir |-> FALSE]
    /\ isAdjusting = FALSE
    /\ isLoading = [d \in Dir |-> FALSE]
    /\ pendingRestore = <<>>
    /\ inflight = [d \in Dir |-> <<>>]
    /\ timers = [d \in Dir |-> 0]
    /\ ticks = <<>>
    /\ ev = <<>>
    /\ NoHistory
    /\ NoGeometry
    /\ NoNative
    /\ NoSide

Next ==
    \/ \E entries \in Batches : Intersect(entries) /\ UNCHANGED aux
    \/ \E d \in Dir : \E i \in 1..Len(inflight[d]) :
          \E outcome \in Outcomes(d, inflight[d][i]) :
              Settle(d, i, outcome) /\ UNCHANGED aux
    \/ \E d \in Dir : Cooldown(d) /\ UNCHANGED aux
    \/ Commit /\ UNCHANGED aux
    \/ SetProps /\ UNCHANGED aux
    \/ Teardown /\ UNCHANGED aux

Spec == Init /\ [][Next]_vars

\* ------------------------------------------- a paged, contiguous source
\* e2e.tsx 76-96: fetchPage returns the pageSize items adjacent to the
\* reference item, fewer at either end of the collection 0..MaxKey.
fetchPage(direction, referenceItem, pageSize) ==
    IF direction = "up"
    THEN LET end == referenceItem
             start == IF end - pageSize > 0 THEN end - pageSize ELSE 0
         IN  [i \in 1..(end - start) |-> start + i - 1]
    ELSE LET start == referenceItem + 1
             end == IF start + pageSize < MaxKey + 1 THEN start + pageSize
                                                     ELSE MaxKey + 1
         IN  IF start >= end THEN <<>> ELSE [i \in 1..(end - start) |-> start + i - 1]

\* e2e.tsx 70-74, 100-141: the windows the demo shows: viewCount consecutive items.
Pages(vc) == {[i \in 1..vc |-> start + i - 1] : start \in 0..(MaxKey + 1 - vc)}

\* The i-th pending call of a direction resolves with a page of fetchPage;
\* a load that commits is remembered.
SettlePage(direction, i, pageSize) ==
    LET call == inflight[direction][i]
        outcome == Resolved(fetchPage(direction, call.ref, pageSize))
        r == AfterLoad(direction, call, outcome)
    IN  /\ Settle(direction, i, outcome)
        /\ hist' = IF r.commit = <<>> THEN hist
                   ELSE <<[dir |-> direction, cur |-> call.cur,
                           newItems |-> outcome.newItems, commit |-> r.commit[1],
                           stale |-> (call.cur # items)]>>
                        \o (IF hist = <<>> THEN <<>> ELSE <<hist[1]>>)

\* The demo: a full window of consecutive items, data on both sides allowed.
InitRoundTrip ==
    /\ viewCount \in 1..MaxViewCount
    /\ items \in Pages(viewCount)
    /\ hasPrevious = TRUE
    /\ hasNext = TRUE
    /\ disable = FALSE
    /\ mounted = TRUE
    /\ loadingLock = [d \in Dir |-> FALSE]
    /\ isAdjusting = FALSE
    /\ isLoading = [d \in Dir |-> FALSE]
    /\ pendingRestore = <<>>
    /\ inflight = [d \in Dir |-> <<>>]
    /\ timers = [d \in Dir |-> 0]
    /\ ticks = <<>>
    /\ ev = <<>>
    /\ NoHistory
    /\ NoGeometry
    /\ NoNative
    /\ NoSide

NextRoundTrip ==
    \/ \E entries \in Batches : Intersect(entries) /\ UNCHANGED aux
    \/ \E d \in Dir : \E i \in 1..Len(inflight[d]) : \E pageSize \in 1..MaxBatch :
          SettlePage(d, i, pageSize) /\ UNCHANGED <<geom, settledAs, native, side>>
    \/ \E d \in Dir : Cooldown(d) /\ UNCHANGED aux
    \/ Commit /\ UNCHANGED aux

SpecRoundTrip == InitRoundTrip /\ [][NextRoundTrip]_vars

\* Runs of consecutive items, one to vc long: a window of the paged source
\* that need not be full.
Runs(vc) ==
    {[i \in 1..n |-> start + i - 1] : <<start, n>> \in
        {p \in Keys \X (1..vc) : p[1] + p[2] - 1 <= MaxKey}}

InitRuns ==
    /\ viewCount \in 1..MaxViewCount
    /\ items \in Runs(viewCount)
    /\ hasPrevious = TRUE
    /\ hasNext = TRUE
    /\ disable = FALSE
    /\ mounted = TRUE
    /\ loadingLock = [d \in Dir |-> FALSE]
    /\ isAdjusting = FALSE
    /\ isLoading = [d \in Dir |-> FALSE]
    /\ pendingRestore = <<>>
    /\ inflight = [d \in Dir |-> <<>>]
    /\ timers = [d \in Dir |-> 0]
    /\ ticks = <<>>
    /\ ev = <<>>
    /\ NoHistory
    /\ NoGeometry
    /\ NoNative
    /\ NoSide

SpecRuns == InitRuns /\ [][NextRoundTrip]_vars

\* ------------------------------------------- the component with geometry
\* Every state change is rendered before the loader settles and before the
\* browser runs a later task.
DomSynced == dom = Rendering

ScrollIntersect(entries) ==
    /\ DomSynced
    /\ Intersect(entries)
    /\ scrollLog' = <<>>
    /\ UNCHANGED <<history, native, side, dom, scrollTop, clientHeight, spinnerHeight, anchorOffset>>

\* react.tsx 319-375, with the offset snapshotAnchor reads from the document;
\* the loader is fetchPage.
ScrollSettle(direction, i, pageSize) ==
    LET call == inflight[direction][i]
        outcome == Resolved(fetchPage(direction, call.ref, pageSize))
    IN  /\ DomSynced
        /\ Settle(direction, i, outcome)
        /\ anchorOffset' = AfterLoad(direction, call, outcome).offset
        /\ scrollLog' = <<>>
        /\ UNCHANGED <<history, native, side, dom, scrollTop, clientHeight, spinnerHeight>>

ScrollCooldown(direction) ==
    /\ DomSynced
    /\ Cooldown(direction)
    /\ scrollLog' = <<>>
    /\ UNCHANGED <<history, native, side, dom, scrollTop, clientHeight, spinnerHeight, anchorOffset>>

\* React commits a render that nextTick callbacks wait for: the document
\* changes, the browser clamps scrollTop, the callbacks run.
ScrollCommit ==
    /\ Commit
    /\ LET st == RunTicks(AfterRender, ticks)
       IN  /\ dom' = st.dom
           /\ scrollTop' = st.scrollTop
           /\ anchorOffset' = st.offset
           /\ scrollLog' = st.log
    /\ UNCHANGED <<history, native, side, clientHeight, spinnerHeight>>

\* React commits a render that no callback waits for.
Render ==
    /\ mounted
    /\ ticks = <<>>
    /\ ~DomSynced
    /\ dom' = Rendering
    /\ scrollTop' = Clamp(scrollTop, Rendering)
    /\ scrollLog' = <<>>
    /\ ev' = <<>>
    /\ UNCHANGED <<items, viewCount, hasPrevious, hasNext, disable, mounted,
                   loadingLock, isAdjusting, isLoading, pendingRestore, inflight,
                   timers, ticks, history, native, side,
                   clientHeight, spinnerHeight, anchorOffset>>

\* The user scrolls the container to another position.
UserScroll(top) ==
    /\ DomSynced
    /\ ticks = <<>>
    /\ top # scrollTop
    /\ scrollTop' = top
    /\ scrollLog' = <<>>
    /\ ev' = <<>>
    /\ UNCHANGED <<items, viewCount, hasPrevious, hasNext, disable, mounted,
                   loadingLock, isAdjusting, isLoading, pendingRestore, inflight,
                   timers, ticks, history, native, side,
                   dom, clientHeight, spinnerHeight, anchorOffset>>

\* react.tsx 180-186, 232-250: where a call on the imperative handle asks the
\* container to scroll to.  scrollTo's top is any position; scrollToKey scrolls
\* the element into view with its top at the top of the container, and does
\* nothing for a key that is not rendered.
Imperative ==
    {[op |-> "scrollTo", top |-> top] : top \in 0..MaxScrollTop(dom)}
        \cup {[op |-> "scrollToTop", top |-> 0],
              [op |-> "scrollToBottom", top |-> ScrollHeight(dom)]}
        \cup {[op |-> "scrollToKey", top |-> VisualOffset(i, dom, 0)] :
                  i \in 1..Len(dom.items)}

\* The parent calls the imperative handle while no load is under way; the
\* scroll is taken at its end.
ImperativeScroll(call) ==
    /\ mounted
    /\ DomSynced
    /\ ticks = <<>>
    /\ ~isAdjusting
    /\ scrollTop' = Clamp(call.top, dom)
    /\ scrollLog' = <<Event(call.op, call.top - scrollTop, call.top)>>
    /\ ev' = <<>>
    /\ UNCHANGED <<items, viewCount, hasPrevious, hasNext, disable, mounted,
                   loadingLock, isAdjusting, isLoading, pendingRestore, inflight,
                   timers, ticks, history, native, side,
                   dom, clientHeight, spinnerHeight, anchorOffset>>

\* The demo's list, a full window of consecutive items, laid out in a
\* container of some height, scrolled anywhere.
InitScroll ==
    /\ viewCount \in 1..MaxViewCount
    /\ items \in Pages(viewCount)
    /\ hasPrevious = TRUE
    /\ hasNext = TRUE
    /\ disable = FALSE
    /\ mounted = TRUE
    /\ loadingLock = [d \in Dir |-> FALSE]
    /\ isAdjusting = FALSE
    /\ isLoading = [d \in Dir |-> FALSE]
    /\ pendingRestore = <<>>
    /\ inflight = [d \in Dir |-> <<>>]
    /\ timers = [d \in Dir |-> 0]
    /\ ticks = <<>>
    /\ ev = <<>>
    /\ NoHistory
    /\ dom = Rendering
    /\ clientHeight \in 1..MaxClientHeight
    /\ spinnerHeight \in 0..MaxSpinnerHeight
    /\ scrollTop \in 0..MaxScrollTop(dom)
    /\ anchorOffset = 0
    /\ scrollLog = <<>>
    /\ NoNative
    /\ NoSide

NextScroll ==
    \/ \E entries \in Batches : ScrollIntersect(entries)
    \/ \E d \in Dir : \E i \in 1..Len(inflight[d]) : \E pageSize \in 1..MaxBatch :
          ScrollSettle(d, i, pageSize)
    \/ \E d \in Dir : ScrollCooldown(d)
    \/ ScrollCommit
    \/ Render
    \/ \E top \in 0..MaxScrollTop(dom) : UserScroll(top)
    \/ \E call \in Imperative : ImperativeScroll(call)

SpecScroll == InitScroll /\ [][NextScroll]_vars

\* --------------------------------------------- loads that give nothing
\* How a settled promise ended.
Kind(outcome) ==
    IF ~outcome.ok THEN "rejected"
    ELSE IF outcome.newItems = <<>> THEN "empty" ELSE "items"

\* The promise of the i-th pending call of a direction settles, and how it
\* settled is remembered for the direction.
SettleNoted(direction, i, outcome) ==
    /\ Settle(direction, i, outcome)
    /\ settledAs' = [settledAs EXCEPT ![direction] = Kind(outcome)]

\* The paged source, which at any call may also fail or have nothing to give yet.
PagedOutcomes(direction, call) ==
    {Rejected, Resolved(<<>>)}
        \cup {Resolved(fetchPage(direction, call.ref, pageSize)) : pageSize \in 1..MaxBatch}

\* The demo's list under any props.
InitRetry ==
    /\ viewCount \in 1..MaxViewCount
    /\ items \in Pages(viewCount)
    /\ hasPrevious \in BOOLEAN
    /\ hasNext \in BOOLEAN
    /\ disable \in BOOLEAN
    /\ mounted = TRUE
    /\ loadingLock = [d \in Dir |-> FALSE]
    /\ isAdjusting = FALSE
    /\ isLoading = [d \in Dir |-> FALSE]
    /\ pendingRestore = <<>>
    /\ inflight = [d \in Dir |-> <<>>]
    /\ timers = [d \in Dir |-> 0]
    /\ ticks = <<>>
    /\ ev = <<>>
    /\ NoHistory
    /\ NoGeometry
    /\ NoNative
    /\ NoSide

NextRetry ==
    \/ \E entries \in Batches : Intersect(entries) /\ UNCHANGED aux
    \/ \E d \in Dir : \E i \in 1..Len(inflight[d]) :
          \E outcome \in PagedOutcomes(d, inflight[d][i]) :
              SettleNoted(d, i, outcome) /\ UNCHANGED <<hist, geom, native, side>>
    \/ \E d \in Dir : Cooldown(d) /\ UNCHANGED aux
    \/ Commit /\ UNCHANGED aux
    \/ SetProps /\ UNCHANGED aux

SpecRetry == InitRetry /\ [][NextRetry]_vars

\* ------------------------------- React Native: restoration by polling
\* The first component of react-native.tsx keeps the measured position of
\* every item it was told of (onLayout) and, after a commit that set
\* scrollRestoreRef, polls that map once per animation frame.  Its load is
\* taken here in one step, from the request to the commit.

\* react-native.tsx 308
maxAttempts == 10

NativeRest ==
    <<viewCount, hasPrevious, hasNext, disable, mounted, loadingLock, isLoading,
      inflight, timers, ticks, history, clientHeight, spinnerHeight, side>>

\* react-native.tsx 170-175: onLayout of the i-th rendered item reports its
\* position in the content.
handleItemLayout(i) ==
    /\ mounted
    /\ layouts' = [layouts EXCEPT ![ItemKey(items[i])] =
                                    <<SumHeights(SubSeq(items, 1, i - 1))>>]
    /\ layouts' # layouts
    /\ scrollLog' = <<>>
    /\ UNCHANGED <<items, isAdjusting, pendingRestore, anchorOffset, scrollTop,
                   poll, offsetY, ev, dom, NativeRest>>

\* anchorLayout?.y ?? 0
LayoutY(key) == IF layouts[key] = <<>> THEN 0 ELSE layouts[key][1]

\* What handleScroll was last told by the scroll view, and whether it
\* returned at line 346 before recording it.
ScrollEvent(y, dropped) == <<[op |-> "scroll", y |-> y, dropped |-> dropped]>>

\* react-native.tsx 344-365, 177-272: a scroll event near an edge, handled
\* with isAdjustingRef false, records the offset and requests a load, which
\* is accepted, and the loader resolves with a page.  scrollRestoreRef (the
\* anchor's key and its measured y) is set before a prepend and before an
\* append that trims.  With applied the parent takes the window handed to
\* onItemsChange; without, it passes no onItemsChange or keeps its array.
\* The effect of the previous commit has run by the time of the event.
NativeHandleLoad(direction, pageSize, applied) ==
    LET newItems == fetchPage(direction, RefItem(direction, items), pageSize)
        up == MergeUp(newItems, items, viewCount)
        down == MergeDown(items, newItems, viewCount)
        restores == direction = "up" \/ DidTrim(items, newItems, viewCount)
        anchorKey == IF direction = "up" THEN ItemKey(items[1]) ELSE ItemKey(down[1])
    IN  /\ mounted
        /\ ~isAdjusting
        /\ ~poll.active
        /\ dom.items = items
        /\ newItems # <<>>
        /\ items' = IF ~applied THEN items
                    ELSE IF direction = "up" THEN up ELSE down
        /\ isAdjusting' = restores
        /\ pendingRestore' =
               IF restores THEN <<[type |-> IF direction = "up" THEN "prepend"
                                                                ELSE "down-trim",
                                   anchor |-> <<[key |-> anchorKey]>>]>>
                           ELSE pendingRestore
        /\ anchorOffset' = IF restores THEN LayoutY(anchorKey) ELSE anchorOffset
        /\ offsetY' = scrollTop
        /\ ev' = ScrollEvent(scrollTop, FALSE)
        /\ scrollLog' = <<>>
        /\ UNCHANGED <<scrollTop, layouts, poll, dom, NativeRest>>

NativeLoad(direction, pageSize) == NativeHandleLoad(direction, pageSize, TRUE)

NativeLoadUnapplied(direction, pageSize) == NativeHandleLoad(direction, pageSize, FALSE)

\* react-native.tsx 344-354: a scroll event away from the edges.  The
\* offset is recorded unless isAdjustingRef is set.
handleScroll(y) ==
    /\ mounted
    /\ y # scrollTop
    /\ scrollTop' = y
    /\ offsetY' = IF isAdjusting THEN offsetY ELSE y
    /\ ev' = ScrollEvent(y, isAdjusting)
    /\ scrollLog' = <<>>
    /\ UNCHANGED <<items, isAdjusting, pendingRestore, anchorOffset, layouts,
                   poll, dom, NativeRest>>

\* react-native.tsx 298-308, 338: the effect of a render whose items differ
\* from those of the render before it (its dependencies) takes
\* scrollRestoreRef, if set, and asks for the first frame.
RestoreEffect ==
    /\ mounted
    /\ dom.items # items
    /\ dom' = Rendering
    /\ IF pendingRestore = <<>>
       THEN UNCHANGED <<poll, pendingRestore>>
       ELSE /\ poll' = [active |-> TRUE, key |-> pendingRestore[1].anchor[1].key,
                        anchorY |-> anchorOffset, attempts |-> 0, lookups |-> 0,
                        outcome |-> "none"]
            /\ pendingRestore' = <<>>
    /\ scrollLog' = <<>>
    /\ UNCHANGED <<items, isAdjusting, anchorOffset, scrollTop, layouts, offsetY,
                   ev, NativeRest>>

\* tryRestore asking for another frame while attempts is at most maxAttempts.
tryRestoreOnceMore ==
    LET layout == layouts[poll.key]
        attempts == poll.attempts + 1
        delta == layout[1] - poll.anchorY
        looked == [poll EXCEPT !.lookups = @ + 1]
    IN  /\ poll.active
        /\ IF layout = <<>>
           THEN /\ poll' = IF attempts <= maxAttempts
                           THEN [looked EXCEPT !.attempts = attempts]
                           ELSE [looked EXCEPT !.attempts = attempts,
                                               !.active = FALSE,
                                               !.outcome = "abandoned"]
                /\ isAdjusting' = IF attempts <= maxAttempts THEN isAdjusting ELSE FALSE
                /\ UNCHANGED <<scrollTop, offsetY>>
                /\ scrollLog' = <<>>
           ELSE /\ poll' = [looked EXCEPT !.active = FALSE, !.outcome = "applied"]
                /\ isAdjusting' = FALSE
                /\ IF Abs(delta) > MIN_SCROLL_DELTA
                   THEN /\ scrollTop' = Clamp(offsetY + delta, Rendering)
                        /\ offsetY' = offsetY + delta
                        /\ scrollLog' = <<Event("onScrollStart", 0, 0),
                                          Event("scrollTop", delta, offsetY + delta),
                                          Event("onScrollEnd", 0, 0)>>
                   ELSE /\ UNCHANGED <<scrollTop, offsetY>>
                        /\ scrollLog' = <<>>
        /\ UNCHANGED <<items, pendingRestore, anchorOffset, layouts, ev, dom,
                       NativeRest>>

\* react-native.tsx 310-336: an animation frame runs tryRestore.  The scroll
\* view keeps the offset it is given within its range.
tryRestore ==
    LET layout == layouts[poll.key]
        attempts == poll.attempts + 1
        delta == layout[1] - poll.anchorY
        looked == [poll EXCEPT !.lookups = @ + 1]
    IN  /\ poll.active
        /\ IF layout = <<>>
           THEN /\ poll' = IF attempts < maxAttempts
                           THEN [looked EXCEPT !.attempts = attempts]
                           ELSE [looked EXCEPT !.attempts = attempts,
                                               !.active = FALSE,
                                               !.outcome = "abandoned"]
                /\ isAdjusting' = IF attempts < maxAttempts THEN isAdjusting ELSE FALSE
                /\ UNCHANGED <<scrollTop, offsetY>>
                /\ scrollLog' = <<>>
           ELSE /\ poll' = [looked EXCEPT !.active = FALSE, !.outcome = "applied"]
                /\ isAdjusting' = FALSE
                /\ IF Abs(delta) > MIN_SCROLL_DELTA
                   THEN /\ scrollTop' = Clamp(offsetY + delta, Rendering)
                        /\ offsetY' = offsetY + delta
                        /\ scrollLog' = <<Event("onScrollStart", 0, 0),
                                          Event("scrollTop", delta, offsetY + delta),
                                          Event("onScrollEnd", 0, 0)>>
                   ELSE /\ UNCHANGED <<scrollTop, offsetY>>
                        /\ scrollLog' = <<>>
        /\ UNCHANGED <<items, pendingRestore, anchorOffset, layouts, ev, dom,
                       NativeRest>>

\* The demo's list in a scroll view, nothing measured yet.
InitNative ==
    /\ viewCount \in 1..MaxViewCount
    /\ items \in Pages(viewCount)
    /\ hasPrevious = TRUE
    /\ hasNext = TRUE
    /\ disable = FALSE
    /\ mounted = TRUE
    /\ loadingLock = [d \in Dir |-> FALSE]
    /\ isAdjusting = FALSE
    /\ isLoading = [d \in Dir |-> FALSE]
    /\ pendingRestore = <<>>
    /\ inflight = [d \in Dir |-> <<>>]
    /\ timers = [d \in Dir |-> 0]
    /\ ticks = <<>>
    /\ ev = <<>>
    /\ NoHistory
    /\ dom = Rendering
    /\ clientHeight = MaxClientHeight
    /\ spinnerHeight = 0
    /\ scrollTop = 0
    /\ anchorOffset = 0
    /\ scrollLog = <<>>
    /\ NoNative
    /\ NoSide

NextNative ==
    \/ \E i \in 1..Len(items) : handleItemLayout(i)
    \/ \E d \in Dir : \E pageSize \in 1..MaxBatch : NativeLoad(d, pageSize)
    \/ RestoreEffect
    \/ tryRestore

\* requestAnimationFrame runs its callback at the next frame.
SpecNative == InitNative /\ [][NextNative]_vars /\ WF_vars(tryRestore)

\* The same component under a parent that may leave its items as they are.
\* React runs the effects of a render, and the frame callbacks asked for.
NextNativeHost ==
    \/ NextNative
    \/ \E d \in Dir : \E pageSize \in 1..MaxBatch : NativeLoadUnapplied(d, pageSize)

SpecNativeHost ==
    InitNative /\ [][NextNativeHost]_vars /\ WF_vars(RestoreEffect) /\ WF_vars(tryRestore)

\* The same component with the user scrolling the view.
NextNativeScroll ==
    \/ NextNative
    \/ \E y \in 0..MaxScrollTop(Rendering) : handleScroll(y)

SpecNativeScroll == InitNative /\ [][NextNativeScroll]_vars

\* ------------------------------------------------------------ fairness
\* A timer that was started does fire, and React does commit a render it has
\* scheduled; nothing makes the loader's promise settle.
InitLive ==
    /\ InitRetry
    /\ hasPrevious /\ hasNext /\ ~disable

NextLive ==
    \/ \E entries \in Batches : Intersect(entries) /\ UNCHANGED aux
    \/ \E d \in Dir : \E i \in 1..Len(inflight[d]) :
          \E outcome \in PagedOutcomes(d, inflight[d][i]) :
              SettleNoted(d, i, outcome) /\ UNCHANGED <<hist, geom, native, side>>
    \/ \E d \in Dir : Cooldown(d) /\ UNCHANGED aux
    \/ Commit /\ UNCHANGED aux

SpecLive ==
    /\ InitLive
    /\ [][NextLive]_vars
    /\ \A d \in Dir : SF_vars(Cooldown(d) /\ UNCHANGED aux)
    /\ WF_vars(Commit /\ UNCHANGED aux)

\* ------------------------------------------- the parent replaces the window
\* react.tsx 151-152: the parent passes other items (a jump to the latest
\* items, say); itemsRef follows on the render.
ReplaceItems(w) ==
    /\ mounted
    /\ w # items
    /\ items' = w
    /\ ev' = <<>>
    /\ UNCHANGED <<viewCount, hasPrevious, hasNext, disable, mounted, loadingLock,
                   isAdjusting, isLoading, pendingRestore, inflight, timers, ticks>>

InitReplace == Init /\ hasPrevious /\ hasNext /\ ~disable

\* One sentinel is reported at a time, so that no two loads overlap.
NextReplace ==
    \/ \E d \in Dir : Intersect(<<d>>) /\ UNCHANGED aux
    \/ \E d \in Dir : \E i \in 1..Len(inflight[d]) :
          \E outcome \in Outcomes(d, inflight[d][i]) :
              Settle(d, i, outcome) /\ UNCHANGED aux
    \/ \E d \in Dir : Cooldown(d) /\ UNCHANGED aux
    \/ Commit /\ UNCHANGED aux
    \/ \E w \in Windows(viewCount) : ReplaceItems(w) /\ UNCHANGED aux

SpecReplace == InitReplace /\ [][NextReplace]_vars

\* ------------------------------------------------------- waitForMutation
\* One record for a call of waitForMutation (src/src/utils.ts):
\*   settled    the closure's flag
\*   observing  the MutationObserver is connected
\*   guard      the timeout is pending
\*   calls      how many times callback has been invoked
\*   last       what invoked it last
\*   cleaned    the caller has called the function that was returned
WaitRest ==
    <<items, viewCount, hasPrevious, hasNext, disable, mounted, loadingLock,
      isAdjusting, isLoading, pendingRestore, inflight, timers, ticks, ev,
      history, geom, native, vue>>

\* clean disconnecting the observer and nothing else.
cleanObserverOnly(w) == [w EXCEPT !.observing = FALSE]

\* utils.ts 20-24
clean(w) == [w EXCEPT !.settled = TRUE, !.observing = FALSE, !.guard = FALSE]

\* utils.ts 26-30
settle(w, from) ==
    IF w.settled THEN w
    ELSE [clean(w) EXCEPT !.calls = @ + 1, !.last = from]

\* utils.ts 12-41: a call returns with the timeout set and the observer
\* connected.
waitForMutation ==
    /\ Len(waits) < MaxWaits
    /\ waits' = Append(waits, [settled |-> FALSE, observing |-> TRUE,
                               guard |-> TRUE, calls |-> 0, last |-> "none",
                               cleaned |-> FALSE])
    /\ UNCHANGED WaitRest

\* utils.ts 34-36: the observer of the i-th call is told of a mutation.
Mutated(i) ==
    /\ waits[i].observing
    /\ waits' = [waits EXCEPT ![i] = settle(@, "mutation")]
    /\ UNCHANGED WaitRest

\* utils.ts 32: the timeout of the i-th call fires.
TimedOut(i) ==
    /\ waits[i].guard
    /\ waits' = [waits EXCEPT ![i] = settle([@ EXCEPT !.guard = FALSE], "timeout")]
    /\ UNCHANGED WaitRest

\* utils.ts 40: the caller calls the clean it was given, for the first time.
Cleanup(i) ==
    /\ ~waits[i].cleaned
    /\ waits' = [waits EXCEPT ![i] = [clean(@) EXCEPT !.cleaned = TRUE]]
    /\ UNCHANGED WaitRest

\* The list at rest.
InitWait == InitRuns /\ viewCount = 1 /\ items = <<0>>

NextWait ==
    \/ waitForMutation
    \/ \E i \in 1..Len(waits) : Mutated(i)
    \/ \E i \in 1..Len(waits) : TimedOut(i)
    \/ \E i \in 1..Len(waits) : Cleanup(i)

SpecWait == InitWait /\ [][NextWait]_vars

\* ------------------------------------------- the Vue component, side by side
\* The second component of src/src/index.vue, keyed like the React one, as
\* a record:
\*   items      props.items / itemsRef.value
\*   lock       loadingLockRef
\*   adjusting  isAdjustingRef.value
\*   loading    isUpLoading.value / isDownLoading.value
\*   pending    pendingRestoreRef.value
\*   inflight   loader calls not yet settled
\*   timers     cooldown timers not yet fired
\*   ticks      nextTickLayout callbacks not yet run
\*   last       the argument of the last step's onItemsChange, <<>> for none
\* Both components get the same props.
VueMounted ==
    [items |-> items, lock |-> [d \in Dir |-> FALSE], adjusting |-> FALSE,
     loading |-> [d \in Dir |-> FALSE], pending |-> <<>>,
     inflight |-> [d \in Dir |-> <<>>], timers |-> [d \in Dir |-> 0],
     ticks |-> <<>>, last |-> <<>>]

\* index.vue 981-987: the early returns of handleLoad.
vueAccepts(v, direction) ==
    /\ ~disable
    /\ (direction = "up" => hasPrevious)
    /\ (direction = "down" => hasNext)
    /\ ~v.lock[direction]
    /\ Len(v.items) # 0

\* index.vue 979-1029: handleLoad up to its first await.  An up load waits
\* for nextTickLayout before it calls onLoadMore; a down load calls it at
\* once.
vueHandleLoad(v, direction) ==
    IF ~vueAccepts(v, direction) THEN v
    ELSE LET taken == [v EXCEPT !.lock[direction] = TRUE,
                                !.adjusting = TRUE,
                                !.loading[direction] = TRUE]
         IN  IF direction = "up"
             THEN [taken EXCEPT !.ticks = Append(@, [op |-> "measure", cur |-> v.items])]
             ELSE [taken EXCEPT !.inflight[direction] =
                                    Append(@, [cur |-> v.items,
                                               ref |-> RefItem(direction, v.items)])]

RECURSIVE vueLoadEach(_, _)
vueLoadEach(v, entries) ==
    IF entries = <<>> THEN v
    ELSE vueLoadEach(vueHandleLoad(v, Head(entries)), Tail(entries))

\* index.vue 1105-1129: the observer exists under the same props as React's.
vueObserver(v, entries) ==
    IF ~Observing THEN v
    ELSE IF v.adjusting THEN v
    ELSE vueLoadEach(v, entries)

\* The up load's tick calling onLoadMore with the window as it is by then.
vueRunTickFresh(v, t) ==
    IF t.op = "measure"
    THEN LET measured ==
                 IF Len(v.items) > 0
                 THEN [v EXCEPT !.pending = <<[type |-> "prepend",
                                               anchor |-> <<[key |-> ItemKey(v.items[1])]>>]>>]
                 ELSE v
         IN  [measured EXCEPT !.inflight["up"] =
                                  Append(@, [cur |-> v.items,
                                             ref |-> RefItem("up", v.items)])]
    ELSE [v EXCEPT !.pending = <<>>, !.adjusting = FALSE]

\* index.vue 1001-1017, 1023-1029: the up load's callback records the
\* anchor, and handleLoad goes on to call onLoadMore with the first of the
\* items it captured; 943-959: applyScrollRestore's callback.
vueRunTick(v, t) ==
    IF t.op = "measure"
    THEN LET measured ==
                 IF Len(v.items) > 0
                 THEN [v EXCEPT !.pending = <<[type |-> "prepend",
                                               anchor |-> <<[key |-> ItemKey(v.items[1])]>>]>>]
                 ELSE v
         IN  [measured EXCEPT !.inflight["up"] =
                                  Append(@, [cur |-> t.cur,
                                             ref |-> RefItem("up", t.cur)])]
    ELSE [v EXCEPT !.pending = <<>>, !.adjusting = FALSE]

\* index.vue 762-771: the callbacks run in the order they were queued.
RECURSIVE vueRunTicks(_, _)
vueRunTicks(v, queue) ==
    IF queue = <<>> THEN [v EXCEPT !.ticks = <<>>, !.last = <<>>]
    ELSE vueRunTicks(vueRunTick(v, Head(queue)), Tail(queue))

\* index.vue 1029-1098: handleLoad from the loader's settlement to its end.
vueSettle(v, direction, i, outcome) ==
    LET call == v.inflight[direction][i]
        newItems == outcome.newItems
        done == [v EXCEPT !.inflight[direction] = RemoveAt(@, i),
                          !.loading[direction] = FALSE,
                          !.timers[direction] = @ + 1,            \* 1092-1097
                          !.last = <<>>]
        up == MergeUp(newItems, call.cur, viewCount)
        down == MergeDown(call.cur, newItems, viewCount)
        didTrim == DidTrim(call.cur, newItems, viewCount)
    IN  IF ~outcome.ok \/ Len(newItems) = 0                       \* 1031-1036, 1087-1091
        THEN [done EXCEPT !.adjusting = FALSE]
        ELSE IF direction = "up"                                   \* 1038-1051
        THEN [done EXCEPT !.items = up, !.last = <<up>>,
                          !.ticks = Append(@, [op |-> "restore"])]
        ELSE IF didTrim                                            \* 1054-1081
        THEN [done EXCEPT !.items = down, !.last = <<down>>,
                          !.pending = <<[type |-> "down-trim",
                                         anchor |-> snapshotAnchor(ItemKey(down[1]),
                                                                   v.items)]>>,
                          !.ticks = Append(@, [op |-> "restore"])]
        ELSE [done EXCEPT !.items = down, !.last = <<down>>,       \* 1082-1084
                          !.adjusting = FALSE]

\* index.vue 1093-1096: a cooldown timer fires.
vueCooldown(v, direction) ==
    [v EXCEPT !.timers[direction] = @ - 1, !.lock[direction] = FALSE, !.last = <<>>]

\* The two components are given the same events.  A loader result reaches
\* both once both have made the call.
BothObserve(entries) ==
    /\ vue.ticks = <<>>
    /\ Intersect(entries)
    /\ vue' = [vueObserver(vue, entries) EXCEPT !.last = <<>>]
    /\ UNCHANGED <<history, geom, native, waits>>

BothSettle(direction, outcome) ==
    /\ inflight[direction] # <<>>
    /\ vue.inflight[direction] # <<>>
    /\ Settle(direction, 1, outcome)
    /\ vue' = vueSettle(vue, direction, 1, outcome)
    /\ UNCHANGED <<history, geom, native, waits>>

BothCooldown(direction) ==
    /\ vue.timers[direction] > 0
    /\ vue.ticks = <<>>
    /\ Cooldown(direction)
    /\ vue' = vueCooldown(vue, direction)
    /\ UNCHANGED <<history, geom, native, waits>>

BothCommit ==
    /\ vue.ticks # <<>>
    /\ Commit
    /\ vue' = vueRunTicks(vue, vue.ticks)
    /\ UNCHANGED <<history, geom, native, waits>>

InitSideBySide ==
    /\ viewCount \in 1..MaxViewCount
    /\ items \in Windows(viewCount)
    /\ hasPrevious \in BOOLEAN
    /\ hasNext \in BOOLEAN
    /\ disable = FALSE
    /\ mounted = TRUE
    /\ loadingLock = [d \in Dir |-> FALSE]
    /\ isAdjusting = FALSE
    /\ isLoading = [d \in Dir |-> FALSE]
    /\ pendingRestore = <<>>
    /\ inflight = [d \in Dir |-> <<>>]
    /\ timers = [d \in Dir |-> 0]
    /\ ticks = <<>>
    /\ ev = <<>>
    /\ NoHistory
    /\ NoGeometry
    /\ NoNative
    /\ vue = VueMounted
    /\ NoWaits

NextSideBySide ==
    \/ \E entries \in Batches : BothObserve(entries)
    \/ \E d \in {o \in Dir : inflight[o] # <<>>} :
          \E outcome \in Outcomes(d, inflight[d][1]) : BothSettle(d, outcome)
    \/ \E d \in Dir : BothCooldown(d)
    \/ BothCommit

SpecSideBySide == InitSideBySide /\ [][NextSideBySide]_vars

\* ------------------------------------------------------------ properties
\* What the last step was.
Settled == ev # <<>> /\ ev[1].op = "settle"
Observed == ev # <<>> /\ ev[1].op = "observe"
\* The last step invoked onItemsChange.
Committed == Settled /\ ev[1].commit # <<>>

Merged == ev[1].call.cur \o ev[1].outcome.newItems

Smaller(a, b) == IF a < b THEN a ELSE b

FirstN(s, n) == [i \in 1..Smaller(n, Len(s)) |-> s[i]]
LastN(s, n) == [i \in 1..Smaller(n, Len(s)) |-> s[Len(s) - Smaller(n, Len(s)) + i]]

Distinct(s) == \A i, j \in 1..Len(s) : i # j => ItemKey(s[i]) # ItemKey(s[j])

\* C1: every window handed to onItemsChange holds at most viewCount items,
\* whatever loads, in whatever interleaving, came before it.
C1_CommittedWithinViewCount ==
    Committed => Len(ev[1].commit[1]) <= viewCount

\* A commit that had to trim, made from a window captured before the other
\* direction's load committed.
C1_Witness ==
    /\ Committed
    /\ ev[1].stale
    /\ Len(Merged) > viewCount

\* C2: a down load that resolves with a non-empty batch commits the last
\* viewCount items of currentItems ++ newItems.
C2_DownKeepsLastViewCount ==
    (Committed /\ ev[1].dir = "down") => ev[1].commit[1] = LastN(Merged, viewCount)

\* Scenario A in small: a full window k, k+1 and the batch k+2 give k+1, k+2.
C2_Witness ==
    /\ Committed
    /\ ev[1].dir = "down"
    /\ viewCount = 2
    /\ Len(ev[1].call.cur) = 2
    /\ Len(ev[1].outcome.newItems) = 1
    /\ ev[1].commit[1] = <<ev[1].call.cur[2], ev[1].outcome.newItems[1]>>

\* C3: an up load that resolves with a non-empty batch commits the first
\* viewCount items of newItems ++ currentItems.
C3_UpKeepsFirstViewCount ==
    (Committed /\ ev[1].dir = "up") =>
        ev[1].commit[1] = FirstN(ev[1].outcome.newItems \o ev[1].call.cur, viewCount)

\* Scenario B in small: the batch k and a full window k+1, k+2 give k, k+1.
C3_Witness ==
    /\ Committed
    /\ ev[1].dir = "up"
    /\ viewCount = 2
    /\ Len(ev[1].call.cur) = 2
    /\ Len(ev[1].outcome.newItems) = 1
    /\ ev[1].commit[1] = <<ev[1].outcome.newItems[1], ev[1].call.cur[1]>>

\* C4: with an initial window of distinct keys and a loader that returns items
\* strictly beyond the reference item, every committed window, and so the
\* window at any time, has pairwise distinct keys.
C4_DistinctKeys ==
    /\ Distinct(items)
    /\ Committed => Distinct(ev[1].commit[1])

\* An up load commits a full window although the down load that was in flight
\* with it has committed in between.
C4_Witness ==
    /\ Committed
    /\ ev[1].dir = "up"
    /\ ev[1].stale
    /\ Len(ev[1].commit[1]) = viewCount
    /\ viewCount > 1

\* The loader invocations the last step made for a direction.
CallsFor(d) ==
    IF Observed THEN {i \in 1..Len(ev[1].calls) : ev[1].calls[i].dir = d} ELSE {}

\* C5: per direction at most one loader call is in flight, the lock is held
\* for as long as it is, a request for a locked direction does nothing, and
\* one notification invokes the loader at most once per direction.
C5_OneCallPerDirection ==
    \A d \in Dir :
        /\ Len(inflight[d]) <= 1
        /\ (inflight[d] # <<>> => loadingLock[d])
        /\ (loadingLock[d] => handleLoad(Controller, d) = Controller)
        /\ Cardinality(CallsFor(d)) <= 1

\* Scenario D: the bottom sentinel is reported again while the first down load
\* is pending and nothing but the lock stands in the way; no loader call is made.
C5_Witness ==
    /\ Observed
    /\ ev[1].entries = <<"down">>
    /\ ev[1].calls = <<>>
    /\ Len(inflight["down"]) = 1
    /\ loadingLock["down"]
    /\ ~disable /\ hasNext /\ ~isAdjusting /\ items # <<>>

\* C6: without hasPrevious a request for up invokes no loader and changes
\* nothing, and likewise without hasNext for down, whatever the locks, the
\* adjusting flag and the window are.
C6_NoLoadBeyondBoundary ==
    /\ ~hasPrevious => (handleLoad(Controller, "up") = Controller /\ CallsFor("up") = {})
    /\ ~hasNext => (handleLoad(Controller, "down") = Controller /\ CallsFor("down") = {})

\* The window starts at the first item, the top sentinel is reported and only
\* hasPrevious = false stands in the way; no loader call is made.
C6_Witness ==
    /\ Observed
    /\ ev[1].entries = <<"up">>
    /\ ev[1].calls = <<>>
    /\ ~hasPrevious /\ hasNext
    /\ items # <<>> /\ items[1] = 0
    /\ ~disable /\ ~isAdjusting /\ ~loadingLock["up"]

\* C7: while disable is true a request in either direction, and so any
\* notification of the sensor, invokes no loader and changes no state.
C7_DisabledDoesNothing ==
    disable =>
        /\ \A d \in Dir : handleLoad(Controller, d) = Controller
        /\ \A entries \in Batches : IntersectionCallback(Controller, entries) = Controller
        /\ \A d \in Dir : CallsFor(d) = {}

\* Both sentinels are reported while disable alone stands in the way.
C7_Witness ==
    /\ Observed
    /\ ev[1].entries = <<"up", "down">>
    /\ ev[1].calls = <<>>
    /\ disable /\ hasPrevious /\ hasNext
    /\ items # <<>> /\ ~isAdjusting
    /\ \A d \in Dir : ~loadingLock[d] /\ inflight[d] = <<>>

\* A lock is released only by its cooldown timer firing.
UnlockOnlyByTimer ==
    \A d \in Dir : (loadingLock[d] /\ ~loadingLock'[d]) => timers'[d] = timers[d] - 1

\* The loader is invoked only on a notification naming the direction.
LoadOnlyOnRequest ==
    \A d \in Dir : Len(inflight'[d]) > Len(inflight[d]) =>
        (ev' # <<>> /\ ev'[1].op = "observe" /\ d \in Range(ev'[1].entries))

\* The step leaves the window alone, clears the indicator and the adjusting
\* flag, keeps the lock and starts its cooldown timer.
EndsQuietly(d) ==
    /\ items' = items
    /\ ev'[1].commit = <<>>
    /\ ~isLoading'[d]
    /\ ~isAdjusting'
    /\ loadingLock[d] /\ loadingLock'[d]
    /\ timers'[d] = timers[d] + 1
    /\ Len(inflight'[d]) = Len(inflight[d]) - 1

\* C8: when the loader rejects, the window is unchanged and onItemsChange is
\* not invoked, the indicator and adjusting are cleared, the lock stays held
\* until its cooldown timer fires, and no loader call is made without a request.
C8_RejectionEndsQuietly ==
    [][/\ (ev' # <<>> /\ ev'[1].op = "settle" /\ ~ev'[1].outcome.ok)
            => EndsQuietly(ev'[1].dir)
       /\ UnlockOnlyByTimer
       /\ LoadOnlyOnRequest]_vars

\* A rejected up load: lock held, timer running, flags cleared.
C8_Witness ==
    /\ Settled
    /\ ~ev[1].outcome.ok
    /\ ev[1].dir = "up"
    /\ loadingLock["up"] /\ timers["up"] = 1
    /\ ~isAdjusting /\ ~isLoading["up"]
    /\ mounted

\* C9: when the loader resolves with an empty array, the window is unchanged
\* and onItemsChange is not invoked, the indicator and adjusting are cleared,
\* and the lock stays held until its cooldown timer fires.
C9_EmptyResultEndsQuietly ==
    [][/\ (ev' # <<>> /\ ev'[1].op = "settle" /\ ev'[1].outcome.ok
              /\ ev'[1].outcome.newItems = <<>>)
            => EndsQuietly(ev'[1].dir)
       /\ UnlockOnlyByTimer]_vars

\* Scenario C: a down load resolved empty: lock held, timer running, flags cleared.
C9_Witness ==
    /\ Settled
    /\ ev[1].outcome.ok /\ ev[1].outcome.newItems = <<>>
    /\ ev[1].dir = "down"
    /\ loadingLock["down"] /\ timers["down"] = 1
    /\ ~isAdjusting /\ ~isLoading["down"]
    /\ mounted

\* C10: a load that resolves with items after the component was torn down is
\* discarded: onItemsChange is not invoked and neither the window nor a flag
\* nor the pending restore changes.
C10_TeardownDiscardsResolution ==
    [][(ev' # <<>> /\ ev'[1].op = "settle" /\ ~ev'[1].live
            /\ ev'[1].outcome.ok /\ ev'[1].outcome.newItems # <<>>)
        => /\ ev'[1].commit = <<>>
           /\ UNCHANGED <<items, isAdjusting, isLoading, pendingRestore>>]_vars

\* The window a load commits: the merge trimmed to viewCount on the far side.
Trimmed(e) == IF e.dir = "up" THEN FirstN(e.outcome.newItems \o e.call.cur, viewCount)
                           ELSE LastN(e.call.cur \o e.outcome.newItems, viewCount)

\* C11: onItemsChange is invoked exactly once, with the merged and trimmed
\* window, by a load that resolves with a non-empty result; it is not invoked
\* by an empty result or a rejection, and the window never changes in a step
\* that is not such a commit (an ignored request included).
C11_OneCommitPerLoadedBatch ==
    [][/\ Settled' =>
            ev'[1].commit = IF ev'[1].outcome.ok /\ ev'[1].outcome.newItems # <<>>
                            THEN <<Trimmed(ev'[1])>> ELSE <<>>
       /\ items' # items => (Committed' /\ ev'[1].commit = <<items'>>)]_vars

\* An up load and a down load commit one after the other, each once; the
\* second one was requested while the first's cooldown was still running.
C11_Witness ==
    /\ Committed
    /\ Len(ev[1].commit) = 1
    /\ ev[1].dir = "down"
    /\ timers["up"] = 1
    /\ ~ev[1].stale
    /\ items = ev[1].commit[1]

\* The boundary item of a window in a direction.
Boundary(direction, window) ==
    IF direction = "up" THEN window[1] ELSE window[Len(window)]

\* C12: every loader invocation made by a sensor notification is for a
\* direction the notification named and carries the boundary item of the
\* window as it is when the request is accepted: the first item for up, the
\* last item for down.
C12_LoaderGetsBoundaryItem ==
    Observed =>
        \A i \in 1..Len(ev[1].calls) :
            /\ ev[1].calls[i].dir \in Range(ev[1].entries)
            /\ ev[1].calls[i].ref = Boundary(ev[1].calls[i].dir, items)
            /\ inflight[ev[1].calls[i].dir][Len(inflight[ev[1].calls[i].dir])]
                   = [cur |-> items, ref |-> ev[1].calls[i].ref]

\* A down request on a window of two items: the loader gets the last one.
C12_Witness ==
    /\ Observed
    /\ ev[1].entries = <<"down">>
    /\ Len(items) = 2
    /\ ev[1].calls = <<[dir |-> "down", ref |-> items[2]]>>

\* C13: an up load and a down load are never in flight at the same time, a
\* notification that reports both edges as near included.
C13_NeverBothInFlight ==
    ~(inflight["up"] # <<>> /\ inflight["down"] # <<>>)

\* C14: while isAdjusting is true, a notification from the sensor, whichever
\* sentinels it names, leaves the component as it is: no loader invocation in
\* either direction.
C14_NoLoadWhileAdjusting ==
    isAdjusting => \A entries \in Batches :
                       IntersectionCallback(Controller, entries) = Controller

\* The top sentinel is reported while a down load is in flight; an up load is
\* otherwise acceptable, and none is started.
C14_Witness ==
    /\ Observed
    /\ ev[1].entries = <<"up">>
    /\ ev[1].calls = <<>>
    /\ isAdjusting
    /\ inflight["down"] # <<>>
    /\ Observing /\ hasPrevious /\ items # <<>>
    /\ ~loadingLock["up"]

\* C15: the lock of a direction is held exactly while a call of that direction
\* is in flight or its cooldown timer is pending; the timer is not running
\* while the call is in flight and is started by the step that settles it,
\* rejected or resolved; a request for the direction during the cooldown
\* invokes nothing.
C15_LockHeldThroughCooldown ==
    \A d \in Dir :
        /\ loadingLock[d] <=> (inflight[d] # <<>> \/ timers[d] > 0)
        /\ inflight[d] # <<>> => timers[d] = 0
        /\ (Settled /\ ev[1].dir = d) => (timers[d] = 1 /\ loadingLock[d])
        /\ timers[d] > 0 => handleLoad(Controller, d) = Controller

\* A down request after an empty resolution and before the timer fires: only
\* the lock stands in its way, and the loader is not called.
C15_Witness ==
    /\ Observed
    /\ ev[1].entries = <<"down">>
    /\ ev[1].calls = <<>>
    /\ timers["down"] = 1
    /\ inflight["down"] = <<>>
    /\ ~isAdjusting
    /\ Observing /\ hasNext /\ items # <<>>

\* The anchor waiting for the restoration of the load the last step committed:
\* the one recorded under the indicator for an up load, the one snapshotted
\* before a trimming commit for a down load.
AnchorOfCommit ==
    IF /\ pendingRestore # <<>>
       /\ pendingRestore[1].anchor # <<>>
       /\ pendingRestore[1].type = (IF ev[1].dir = "up" THEN "prepend" ELSE "down-trim")
    THEN <<pendingRestore[1].anchor[1].key>>
    ELSE <<>>

\* The anchor is the item the claim names and is in the committed window.
AnchorSurvives ==
    AnchorOfCommit # <<>> =>
        /\ AnchorOfCommit[1] \in Range(ev[1].commit[1])
        /\ AnchorOfCommit[1] = IF ev[1].dir = "up" THEN ItemKey(ev[1].call.cur[1])
                                                   ELSE ItemKey(ev[1].commit[1][1])

\* C16: for every committed load, of whatever batch size, the anchor waiting
\* for its restoration is a member of the committed window: the old first
\* item for an up load, the first surviving item for a down load that trimmed.
C16_AnchorInCommittedWindow ==
    Committed => AnchorSurvives

\* C19: a load commits min(viewCount, Len(current) + Len(loaded)) items, and
\* a window that holds exactly viewCount items before a commit holds exactly
\* viewCount items after it.
C19_FullWindowStaysFull ==
    [][Committed' =>
          /\ Len(ev'[1].commit[1]) =
                 Smaller(viewCount, Len(ev'[1].call.cur) + Len(ev'[1].outcome.newItems))
          /\ Len(items) = viewCount => Len(items') = viewCount]_vars

\* The last two loads that committed, a then b, are a round trip: opposite
\* directions, each merged into the window as it was when it resolved, b onto
\* the window a committed, a onto a full window, both with the same number
\* k <= viewCount of adjacent items.
RoundTrip ==
    /\ Len(hist) = 2
    /\ LET a == hist[2]
           b == hist[1]
       IN  /\ a.dir # b.dir
           /\ ~a.stale /\ ~b.stale
           /\ b.cur = a.commit
           /\ Len(a.cur) = viewCount
           /\ Len(a.newItems) = Len(b.newItems)
           /\ Len(a.newItems) <= viewCount

\* C20: from a full window of consecutive items, a completed load of the k
\* adjacent items in one direction followed by a completed load of the k
\* adjacent items in the other direction commits the original window again.
C20_RoundTripRestoresWindow ==
    RoundTrip => hist[1].commit = hist[2].cur

\* Down, then up, with pages of two on a window of two (k = viewCount): the
\* window moved and is back.
C20_Witness ==
    /\ RoundTrip
    /\ hist[2].dir = "down"
    /\ viewCount = 2
    /\ Len(hist[2].newItems) = 2
    /\ hist[2].commit # hist[2].cur
    /\ items = hist[2].cur

\* A render commits with one restoration queued and a restore pending: the
\* step runs applyScrollRestore on the anchor recorded before it.
RestoreStep ==
    /\ ticks = <<"restore">>
    /\ ticks' = <<>>
    /\ pendingRestore # <<>>

RestoredAnchor == AnchorOf(pendingRestore, anchorOffset)

\* The position the restoration asks for lies within the scrollable range of
\* the new document.
RestoreWithinRange ==
    LET top == Clamp(scrollTop, Rendering)
        target == top + computeAnchorDelta(RestoredAnchor, Rendering, top)
    IN  target >= 0 /\ target <= MaxScrollTop(Rendering)

\* C17 as stated: after the restoration that follows a committed prepend or
\* head-trim, computeAnchorDelta for the same anchor is 0: the anchor is
\* within MIN_SCROLL_DELTA of its recorded offset, the browser clamping
\* scrollTop to the scrollable range.
C17_RestoredWithinThreshold ==
    [][RestoreStep =>
          computeAnchorDelta(RestoredAnchor, dom', scrollTop') = 0]_vars

\* C17 as amended: the same when the position the restoration asks for lies
\* within the scrollable range.
C17_RestoredWithinThresholdInRange ==
    [][(RestoreStep /\ RestoreWithinRange) =>
          computeAnchorDelta(RestoredAnchor, dom', scrollTop') = 0]_vars

\* A restoration has just moved scrollTop by more than the threshold, to the
\* position it asked for.
C17_Witness ==
    /\ Len(scrollLog) = 3
    /\ scrollLog[2].e = "scrollTop"
    /\ Abs(scrollLog[2].by) > MIN_SCROLL_DELTA
    /\ scrollLog[2].to = scrollTop
    /\ pendingRestore = <<>>
    /\ ~isAdjusting
    /\ dom = Rendering

\* C18: the restoration's write of scrollTop comes between one onScrollStart
\* and one onScrollEnd, the two callbacks occur only around such a write, a
\* restoration that finds nothing to correct writes nothing and calls neither,
\* and the scroll operations of the imperative handle call neither.
C18_CallbacksBracketCorrection ==
    \A i \in 1..Len(scrollLog) :
        /\ scrollLog[i].e = "scrollTop" =>
              /\ scrollLog[i].by # 0
              /\ i > 1 /\ scrollLog[i - 1].e = "onScrollStart"
              /\ i < Len(scrollLog) /\ scrollLog[i + 1].e = "onScrollEnd"
        /\ scrollLog[i].e = "onScrollStart" =>
              i < Len(scrollLog) /\ scrollLog[i + 1].e = "scrollTop"
        /\ scrollLog[i].e = "onScrollEnd" =>
              i > 1 /\ scrollLog[i - 1].e = "scrollTop"

\* A restoration has corrected the position: start, write, end.
C18_Witness ==
    /\ Len(scrollLog) = 3
    /\ scrollLog[1].e = "onScrollStart"
    /\ scrollLog[2].e = "scrollTop" /\ scrollLog[2].by # 0
    /\ scrollLog[3].e = "onScrollEnd"

\* hasPrevious for "up", hasNext for "down".
Available(d) == IF d = "up" THEN hasPrevious ELSE hasNext

\* The call handleLoad makes for a direction from the current window.
CallFor(d) == <<[dir |-> d, ref |-> RefItem(d, items)]>>

\* C21: an empty loader result does not disable a direction: once the load
\* that resolved empty has gone through its cooldown, a request in the same
\* direction, with the component enabled and the direction's availability
\* flag true, is accepted and invokes the loader with the boundary item; the
\* sensor's notification does the same unless another load is adjusting.
C21_EmptyResultAllowsRetry ==
    \A d \in Dir :
        (/\ settledAs[d] = "empty"
         /\ inflight[d] = <<>> /\ timers[d] = 0
         /\ mounted /\ ~disable /\ Available(d))
        => /\ handleLoad(Controller, d).calls = CallFor(d)
           /\ ~isAdjusting =>
                  IntersectionCallback(Controller, <<d>>).calls = CallFor(d)

\* A down request just accepted, the previous down load having resolved empty.
C21_Witness ==
    /\ Observed
    /\ ev[1].entries = <<"down">>
    /\ ev[1].calls = CallFor("down")
    /\ settledAs["down"] = "empty"
    /\ Len(inflight["down"]) = 1

\* The anchor of the pending restore is null, or no rendered element has its key.
AnchorMissing ==
    \/ RestoredAnchor = <<>>
    \/ \A i \in 1..Len(items) : ItemKey(items[i]) # RestoredAnchor[1].key

\* C22: a restoration step clears adjusting and the pending restore and
\* leaves the window, the locks, the cooldown timers and the indicators as
\* they are, whether or not it finds its anchor; when the anchor is null or
\* not rendered it writes no scroll position and calls neither onScrollStart
\* nor onScrollEnd.
C22_MissingAnchorSkipsRestore ==
    [][RestoreStep =>
         /\ ~isAdjusting'
         /\ pendingRestore' = <<>>
         /\ UNCHANGED <<items, loadingLock, isLoading, timers, inflight>>
         /\ AnchorMissing =>
                (scrollLog' = <<>> /\ scrollTop' = Clamp(scrollTop, Rendering))]_vars

\* With a window of one item an up load replaces the anchor it recorded under
\* the indicator: restored without a write, two units from where it was.
C22_Witness ==
    /\ viewCount = 1 /\ items = <<1>> /\ dom = Rendering
    /\ spinnerHeight = 2 /\ anchorOffset = 2
    /\ timers["up"] = 1 /\ ~isLoading["up"] /\ inflight["up"] = <<>>
    /\ ~loadingLock["down"]
    /\ ticks = <<>> /\ pendingRestore = <<>> /\ ~isAdjusting
    /\ scrollLog = <<>>

\* C23: every window handed to onItemsChange is non-empty, however the up and
\* down loads that were started without waiting for one another interleave.
C23_CommittedWindowNonEmpty ==
    Committed => ev[1].commit[1] # <<>>

\* A commit of a one-item window by a load that was started before the other
\* direction's load committed.
C23_Witness ==
    /\ Committed
    /\ ev[1].stale
    /\ viewCount = 1
    /\ Len(ev[1].commit[1]) = 1

\* The step settles a load with a commit that a restoration follows: a prepend,
\* or an append that trims the head.
CommitsForRestore ==
    /\ ev' # <<>> /\ ev'[1].op = "settle" /\ ev'[1].commit # <<>>
    /\ \/ ev'[1].dir = "up"
       \/ DidTrim(ev'[1].call.cur, ev'[1].outcome.newItems, viewCount)

\* C24: adjusting is true when a load commits a prepend or a head-trim, as it
\* has been since the request was accepted, and stays true for as long as the
\* restoration of that commit is queued; nothing else clears it earlier.
C24_AdjustingHeldUntilRestore ==
    [][/\ CommitsForRestore => (isAdjusting /\ isAdjusting')
       /\ (mounted' /\ "restore" \in Range(ticks')) => isAdjusting']_vars

\* A restoration is queued for the commit of a render of the mounted component.
Restoring == mounted /\ "restore" \in Range(ticks)

\* The phases of a direction follow one another: the lock is taken, from
\* idle, by the step that calls the loader; the call is settled once, by the
\* step that starts its cooldown timer with the lock held; the lock is
\* released by a cooldown timer, with no call in flight and no restoration
\* still queued.
PhaseOrder(d) ==
    /\ (~loadingLock[d] /\ loadingLock'[d])
          => (inflight[d] = <<>> /\ timers[d] = 0 /\ Len(inflight'[d]) = 1)
    /\ Len(inflight'[d]) < Len(inflight[d])
          => (/\ ev' # <<>> /\ ev'[1].op = "settle" /\ ev'[1].dir = d
              /\ timers'[d] = timers[d] + 1 /\ loadingLock'[d])
    /\ (loadingLock[d] /\ ~loadingLock'[d])
          => (timers[d] > 0 /\ inflight[d] = <<>> /\ ~Restoring)

EndsWithoutCommit ==
    ev' # <<>> /\ ev'[1].op = "settle" /\ ev'[1].commit = <<>>

\* The step commits a render whose queue holds a restoration.
RunsRestore == Restoring /\ ticks' = <<>>

\* C25: a pending restore exists by the time the load it belongs to commits
\* a prepend or a head-trim, and is consumed by the restoration that follows
\* that commit; when a cycle has ended without a commit, no other load being
\* in flight or waiting for its restoration, and after a restoration has run,
\* no pending restore is left.
C25_PendingRestoreOwnCycle ==
    [][/\ CommitsForRestore => pendingRestore' # <<>>
       /\ RunsRestore => (pendingRestore # <<>> /\ pendingRestore' = <<>>)
       /\ (/\ EndsWithoutCommit
           /\ \A d \in Dir : inflight'[d] = <<>>
           /\ ~Restoring')
          => pendingRestore' = <<>>]_vars

\* computeAnchorDelta returns 0 for the null anchor and, in the document as it
\* stands, for every key that is not rendered; for a rendered key and any
\* recorded offset it returns 0 when the element is found less than `least`
\* away from the recorded offset, and the signed distance otherwise.
DeltaAgrees(least) ==
    /\ computeAnchorDelta(<<>>, dom, scrollTop) = 0
    /\ \A key \in Keys : \A offset \in -MaxOffset..MaxOffset :
          LET el == {i \in 1..Len(dom.items) : ItemKey(dom.items[i]) = key}
              r == computeAnchorDelta(<<[key |-> key, offset |-> offset]>>, dom, scrollTop)
          IN  IF el = {} THEN r = 0
              ELSE LET delta == VisualOffset(CHOOSE i \in el : TRUE, dom, scrollTop)
                                    - offset
                   IN  r = IF Abs(delta) < least THEN 0 ELSE delta

Ignored(d) == disable \/ ~Available(d) \/ loadingLock[d] \/ items = <<>>

\* C28: a request that is ignored changes nothing: handleLoad leaves both
\* locks, adjusting, both indicators and the calls in flight as they are and
\* calls no loader; a notification all of whose requests are ignored leaves
\* the window and the pending restore alone as well, and starts no timer.
C28_IgnoredRequestChangesNothing ==
    [][/\ \A d \in Dir : Ignored(d) => handleLoad(Controller, d) = Controller
       /\ (/\ ev' # <<>> /\ ev'[1].op = "observe"
           /\ \A i \in 1..Len(ev'[1].entries) : Ignored(ev'[1].entries[i]))
          => /\ ev'[1].calls = <<>>
             /\ UNCHANGED <<items, loadingLock, isAdjusting, isLoading,
                            pendingRestore, inflight, timers, ticks>>]_vars

\* The top sentinel was reported with hasPrevious false and nothing else in
\* the way: the request reached handleLoad and was ignored.
C28_Witness ==
    /\ Observed
    /\ ev[1].entries = <<"up">>
    /\ ev[1].calls = <<>>
    /\ ~hasPrevious /\ hasNext /\ ~disable /\ mounted
    /\ ~isAdjusting /\ ~loadingLock["up"] /\ items # <<>>

\* C29: the polling restoration looks its anchor up at most maxAttempts times;
\* it ends by applying the restoration when the anchor's layout is there, or
\* by giving up at the lookup that fails for the maxAttempts-th time; either
\* way adjusting is cleared; and once started it does end.
C29_PollingTerminates ==
    /\ [](poll.lookups <= maxAttempts)
    /\ [][(poll.active /\ ~poll'.active) =>
             /\ ~isAdjusting'
             /\ \/ poll'.outcome = "applied" /\ layouts[poll.key] # <<>>
                \/ /\ poll'.outcome = "abandoned" /\ layouts[poll.key] = <<>>
                   /\ poll'.attempts = maxAttempts /\ poll'.lookups = maxAttempts]_vars
    /\ (poll.active ~> ~poll.active)

\* The anchor's layout never came: given up at the tenth lookup.
C29_Witness ==
    /\ ~poll.active
    /\ poll.outcome = "abandoned"
    /\ poll.lookups = maxAttempts
    /\ ~isAdjusting

\* C30: a lock is held for as long as a call of its direction is in flight,
\* however long that is; once the call has settled, resolved or rejected, the
\* lock is eventually released, after which a request in the direction is
\* accepted again.
C30_SettledLoadUnlocks ==
    /\ [](\A d \in Dir : inflight[d] # <<>> => loadingLock[d])
    /\ \A d \in Dir : (loadingLock[d] /\ inflight[d] = <<>>) ~> ~loadingLock[d]

\* Two successive down loads: the first resolved with items, the second has
\* just been accepted.
C30_Witness ==
    /\ Observed
    /\ ev[1].entries = <<"down">>
    /\ ev[1].calls = CallFor("down")
    /\ settledAs["down"] = "items"
    /\ Len(inflight["down"]) = 1

\* C31: with the effects of a render and the frame callbacks it asks for run
\* eventually, isAdjusting does not stay set: every load that set it is
\* followed by a state in which it is clear, also when the parent leaves the
\* items it passes as they were after the commit.
C31_AdjustingEventuallyCleared == isAdjusting ~> ~isAdjusting

\* C38: the corrective scroll of the polling restoration starts from the
\* offset of the scroll view's most recent scroll event, events that arrived
\* while isAdjusting was set included.
C38_RestoreFromReportedOffset ==
    [][(poll.active /\ ~poll'.active /\ scrollLog' # <<>>)
          => scrollLog'[2].to - scrollLog'[2].by = ev[1].y]_vars

\* C32: when a down load trims the head of the window, the anchor it takes,
\* the first item that survives, is an item of the window the load merged
\* into, so it was rendered when its position was snapshotted, whatever the
\* size of the loaded batch.
C32_DownTrimAnchorWasRendered ==
    (/\ Committed
     /\ ev[1].dir = "down"
     /\ DidTrim(ev[1].call.cur, ev[1].outcome.newItems, viewCount))
        => ev[1].commit[1][1] \in Range(ev[1].call.cur)

\* The commit of e had it merged into the window cur.
MergedInto(e, cur) == Trimmed([e EXCEPT !.call.cur = cur])

\* C35: the window a load commits is the merge of the loaded items with the
\* window that is current when the loader resolves, not with the one that
\* was current when the request was accepted: a commit or a replacement of
\* the window made in between is not overwritten.
C35_CommitMergesCurrentWindow ==
    [][Committed' => ev'[1].commit[1] = MergedInto(ev'[1], items)]_vars

\* s is a run of consecutive items of the collection, in its order.
Contiguous(s) == \A i \in 1..(Len(s) - 1) : s[i + 1] = s[i] + 1

\* C36: from a window of consecutive items, with a loader that returns the
\* items next to the reference item, every committed window is again a run
\* of consecutive items in order, whether loads overlap or not and whether
\* or not a batch is larger than viewCount.
C36_CommittedWindowContiguous ==
    /\ Contiguous(items)
    /\ Committed => Contiguous(ev[1].commit[1])

\* A load that overlapped another commits a batch larger than viewCount.
C36_Witness ==
    /\ Committed
    /\ ev[1].stale
    /\ Len(ev[1].outcome.newItems) > viewCount

\* C37: a direction's loading indicator is shown only while the direction's
\* lock is held, and it is shown exactly while a loader call of the
\* direction has been made and has not settled.
C37_IndicatorWhileInFlight ==
    \A d \in Dir : /\ isLoading[d] => loadingLock[d]
                   /\ isLoading[d] <=> inflight[d] # <<>>

\* A load has settled: its indicator is off and its lock is still held;
\* the other direction's load is in flight with its indicator on.
C37_Witness ==
    /\ Settled
    /\ ~isLoading[ev[1].dir]
    /\ loadingLock[ev[1].dir]
    /\ \E d \in Dir : isLoading[d] /\ inflight[d] # <<>>

\* C39: a direction has at most one cooldown timer pending; the lock is
\* released only by that timer, with no loader call of the direction in
\* flight; and a request is accepted only when no timer of an earlier
\* request of its direction is pending, so none can unlock it.
C39_OneTimerPerCycle ==
    [][\A d \in Dir :
          /\ timers'[d] <= 1
          /\ (loadingLock[d] /\ ~loadingLock'[d])
                => (inflight[d] = <<>> /\ timers[d] = 1 /\ timers'[d] = 0)
          /\ Len(inflight'[d]) > Len(inflight[d]) => timers[d] = 0]_vars

\* A direction whose earlier load has settled and cooled down has a later
\* call in flight, while the other direction's timer is pending.
C39_Witness ==
    \E d \in Dir : \E o \in Dir \ {d} :
        /\ settledAs[d] # "none"
        /\ inflight[d] # <<>>
        /\ timers[d] = 0
        /\ timers[o] = 1

\* C34: waitForMutation invokes its callback once, on the first of a
\* mutation and the timeout, and not again on the other; once the caller
\* has called the returned function the callback is not invoked (any more).
C34_CallbackOnceUnlessCleaned ==
    [][\A i \in 1..Len(waits') :
          LET w == waits'[i]
          IN  /\ w.calls <= 1
              /\ (~w.cleaned /\ (~w.observing \/ ~w.guard)) => w.calls = 1
              /\ w.calls = 1 => (~w.observing /\ ~w.guard)
              /\ (i <= Len(waits) /\ waits[i].cleaned) => w.calls = waits[i].calls]_vars

\* One call ended by a mutation, one by its timeout, and one cleaned up
\* before either.
C34_Witness ==
    \E i, j, k \in 1..Len(waits) :
        /\ waits[i].calls = 1 /\ waits[i].last = "mutation"
        /\ waits[j].calls = 1 /\ waits[j].last = "timeout"
        /\ waits[k].calls = 0 /\ waits[k].cleaned

\* C33: given the same observer notifications, loader results, timer
\* firings and renders, the React and the Vue component hand the same
\* windows to onItemsChange, step by step, and their locks, adjusting flags
\* and loading indicators are equal; the same timers and renders are due.
C33_VueMatchesReact ==
    /\ vue.items = items
    /\ vue.last = (IF Settled THEN ev[1].commit ELSE <<>>)
    /\ vue.lock = loadingLock
    /\ vue.adjusting = isAdjusting
    /\ vue.loading = isLoading
    /\ vue.timers = timers
    /\ (vue.ticks = <<>>) <=> (ticks = <<>>)

\* Both have committed an up load that overlapped a down load.
C33_Witness ==
    /\ Committed
    /\ ev[1].dir = "up"
    /\ ev[1].stale
    /\ vue.last = ev[1].commit

====
